---- MODULE Spec2Model ----
(***************************************************************************)
(* A model of the React hook demos of my-react-app: the four reducers of   *)
(* UseReducerDemo and the two Counter components, the effects of           *)
(* UseEffectDemo, the render behaviour of UseCallbackDemo, the refs of     *)
(* UseRefDemo, the memoized calculation of UseMemoDemo and the contexts of *)
(* UseContextDemo.                                                         *)
(*                                                                         *)
(* JavaScript objects are modelled on a heap: a function from references   *)
(* (naturals) to object contents.  Object identity is the reference, so    *)
(* "returns a new object" and "mutates its argument" are distinguishable.  *)
(***************************************************************************)
EXTENDS Integers, Sequences, FiniteSets, TLC

VARIABLES
    heap,          \* UseReducerDemo module: reference -> object contents
    counterState,  \* useReducer(counterReducer, ...): reference of the state
    formState,     \* useReducer(formReducer, ...)
    todoState,     \* useReducer(todoReducer, ...)
    cartState,     \* useReducer(cartReducer, ...)
    demoError,     \* "none", or the error a reducer threw while rendering
    lastCall,      \* observation of the latest dispatch (history variable)
    submitTimers,  \* handleFormSubmit: its setTimeout callbacks still to run
    count,         \* Counter: useState(0), one per Counter variant
    shown,         \* Counter: the count captured by the latest render
    lastClick,     \* Counter: observation of the latest click
    ue,            \* UseEffectDemo: mounted, and the values of its useState hooks
    localStorage,  \* window.localStorage: key -> string (outlives the component)
    title,         \* document.title
    timeouts,      \* pending setTimeout timers: id -> [term, remaining]
    intervals,     \* live setInterval timers: id -> [remaining]
    timer,         \* PATTERN 7: the id its cleanup closure holds
    interval,      \* PATTERN 5: the id its cleanup closure holds, or undefined
    sinceChange,   \* ms since searchTerm last changed (capped at the delay)
    ueLast,        \* UseEffectDemo: observation of the latest event
    cb,            \* UseCallbackDemo: the values of its useState hooks
    renderCounters,\* UseCallbackDemo: the render-counter objects of the latest render
    childProps,    \* UseCallbackDemo: child -> the props of its latest render
    rendered,      \* UseCallbackDemo: the children the latest parent render rendered
    displayed,     \* UseCallbackDemo: child -> the "Renders:" number it shows
    cbLast,        \* UseCallbackDemo: the latest event
    ur,            \* UseRefDemo: mounted, and the values of its useState hooks
    refs,          \* UseRefDemo: the .current of its useRef objects
    shownRef,      \* UseRefDemo: what the latest render displays
    urIntervals,   \* UseRefDemo: live setInterval timers
    renders,       \* UseRefDemo: how many times the component rendered (history)
    countBefore,   \* UseRefDemo: count before its most recent change (history)
    urQueued,      \* UseRefDemo: setCount(c => c + 1) updates queued, not yet rendered
    urLast,        \* UseRefDemo: the latest event
    um,            \* UseMemoDemo: the values of its useState hooks
    fibMemo,       \* UseMemoDemo: what useMemo keeps for fibResultWithMemo
    fibCalls,      \* UseMemoDemo: the calls of fibonacci the latest render made
    shownFib,      \* UseMemoDemo: the Result the latest render displays
    umLast,        \* UseMemoDemo: the latest event
    uc,            \* UseContextDemo: the values of its useState hooks
    seen,          \* UseContextDemo: the theme each component read in the latest render
    ucLast         \* UseContextDemo: the latest two events and the state before them

reducerVars == <<heap, counterState, formState, todoState, cartState, demoError, lastCall,
                 submitTimers>>
counterVars == <<count, shown, lastClick>>
effectVars == <<ue, localStorage, title, timeouts, intervals, timer, interval,
                sinceChange, ueLast>>
callbackVars == <<cb, renderCounters, childProps, rendered, displayed, cbLast>>
refVars == <<ur, refs, shownRef, urIntervals, renders, countBefore, urQueued, urLast>>
memoVars == <<um, fibMemo, fibCalls, shownFib, umLast>>
contextVars == <<uc, seen, ucLast>>
\* The demos that follow the first four on the page
demoVars == <<refVars, memoVars, contextVars>>

-----------------------------------------------------------------------------
(* Bounds of the exploration *)

MaxCount == 6
MaxTodos == 2
MaxNextId == 3
MaxQty == 2
MaxPendingSubmits == 1  \* the form: submissions whose timeout is still to run
MaxEffectCount == 2     \* UseEffectDemo: |count| stays within this
MaxSeconds == 2         \* UseEffectDemo: the timer display stays within this
Quantum == 250          \* ms of time that pass in one step of the clock
MaxCallbackCount == 5   \* UseCallbackDemo: count stays within this
MaxOtherState == 1      \* UseCallbackDemo: otherState stays within this
MaxRefCount == 2        \* UseRefDemo: |count| stays within this
MaxRenders == 6         \* UseRefDemo: renders between a mount and its unmount
MaxQueuedTicks == 1     \* UseRefDemo: interval callbacks run since the latest render
MaxMemoCount == 3       \* UseMemoDemo: count stays within this
MaxProducts == 10       \* UseMemoDemo: products stay within this many

-----------------------------------------------------------------------------
(* The heap *)

\* The smallest reference not in use: what `{...}` or `[...]` allocates.
Fresh(h) ==
    CHOOSE r \in 0..Cardinality(DOMAIN h) :
        r \notin DOMAIN h /\ \A q \in 0..Cardinality(DOMAIN h) : q < r => q \in DOMAIN h

\* Evaluating an object or array literal: a new object on the heap.
New(h, obj) == [heap |-> h @@ (Fresh(h) :> obj), ref |-> Fresh(h)]

\* Module-level constants of UseReducerDemo.jsx, allocated once at import.
counterInitialState == 0
formInitialState == 1
formInitialErrors == 2
todoInitialState == 3
todoInitialTodos == 4
cartInitialState == 5
cartInitialItems == 6

EmptyObject == [f \in {} |-> ""]

InitialHeap ==
    (counterInitialState :> [count |-> 0])
 @@ (formInitialState :> [username |-> "", email |-> "", password |-> "", age |-> "",
                          errors |-> formInitialErrors, isSubmitting |-> FALSE])
 @@ (formInitialErrors :> [fields |-> EmptyObject])
 @@ (todoInitialState :> [todos |-> todoInitialTodos, filter |-> "all", nextId |-> 1])
 @@ (todoInitialTodos :> [elems |-> <<>>])
 @@ (cartInitialState :> [items |-> cartInitialItems, total |-> 0])
 @@ (cartInitialItems :> [elems |-> <<>>])

ModuleConstants == DOMAIN InitialHeap

products ==
    << [id |-> 1, name |-> "Laptop", price |-> 999],
       [id |-> 2, name |-> "Mouse", price |-> 29],
       [id |-> 3, name |-> "Keyboard", price |-> 79] >>

Range(s) == {s[i] : i \in DOMAIN s}

\* JavaScript's undefined where a reference or a timer id is expected (none is negative).
undefined == -1

\* What a reducer call produces: a returned reference, or a thrown error.
Returns(h, r) == [outcome |-> "state", heap |-> h, ref |-> r]
Throws(h, kind, state) == [outcome |-> kind, heap |-> h, ref |-> state]

-----------------------------------------------------------------------------
(* PATTERN 1: counterReducer *)

counterReducer(h, state, action) ==
    CASE action.type = "INCREMENT" ->
           LET n == New(h, [count |-> h[state].count + 1]) IN Returns(n.heap, n.ref)
      [] action.type = "DECREMENT" ->
           LET n == New(h, [count |-> h[state].count - 1]) IN Returns(n.heap, n.ref)
      [] action.type = "RESET" ->
           LET n == New(h, [count |-> 0]) IN Returns(n.heap, n.ref)
      [] action.type = "INCREMENT_BY" ->
           LET n == New(h, [count |-> h[state].count + action.payload]) IN Returns(n.heap, n.ref)
      [] OTHER -> Throws(h, "Error", state)

-----------------------------------------------------------------------------
(* PATTERN 2: formReducer *)

\* { ...errors, [field]: value }
SpreadSet(fields, field, value) ==
    [f \in (DOMAIN fields) \cup {field} |-> IF f = field THEN value ELSE fields[f]]

\* { ...state, [action.field]: action.value }
SetField(obj, field, value) ==
    CASE field = "username" -> [obj EXCEPT !.username = value]
      [] field = "email" -> [obj EXCEPT !.email = value]
      [] field = "password" -> [obj EXCEPT !.password = value]
      [] field = "age" -> [obj EXCEPT !.age = value]

formReducer(h, state, action) ==
    CASE action.type = "UPDATE_FIELD" ->
           LET e == New(h, [fields |-> SpreadSet(h[h[state].errors].fields, action.field, "")])
               n == New(e.heap, [SetField(h[state], action.field, action.value)
                                   EXCEPT !.errors = e.ref])
           IN  Returns(n.heap, n.ref)
      [] action.type = "SET_ERROR" ->
           LET e == New(h, [fields |-> SpreadSet(h[h[state].errors].fields,
                                                 action.field, action.error)])
               n == New(e.heap, [h[state] EXCEPT !.errors = e.ref])
           IN  Returns(n.heap, n.ref)
      [] action.type = "SET_ERRORS" ->
           LET n == New(h, [h[state] EXCEPT !.errors = action.errors])
           IN  Returns(n.heap, n.ref)
      [] action.type = "SUBMIT_START" ->
           LET n == New(h, [h[state] EXCEPT !.isSubmitting = TRUE])
           IN  Returns(n.heap, n.ref)
      [] action.type = "SUBMIT_SUCCESS" -> Returns(h, formInitialState)
      [] action.type = "SUBMIT_FAILURE" ->
           LET n == New(h, [h[state] EXCEPT !.isSubmitting = FALSE])
           IN  Returns(n.heap, n.ref)
      [] action.type = "RESET_FORM" -> Returns(h, formInitialState)
      [] OTHER -> Returns(h, state)

-----------------------------------------------------------------------------
(* Array.prototype.map / filter / find over arrays of object references *)

\* What `cond ? { ...x, field: value } : x` builds for a matching element.
Patched(obj, how, arg) ==
    CASE how = "toggle" -> [obj EXCEPT !.completed = ~obj.completed]
      [] how = "text" -> [obj EXCEPT !.text = arg]
      [] how = "plusOne" -> [obj EXCEPT !.quantity = obj.quantity + 1]
      [] how = "quantity" -> [obj EXCEPT !.quantity = arg]

\* elems.map(x => x.id === id ? { ...x, <patch> } : x): the elements in order,
\* a new object for each match, the same reference for every other element.
RECURSIVE MapById(_, _, _, _, _)
MapById(h, elems, id, how, arg) ==
    IF elems = <<>> THEN [heap |-> h, elems |-> <<>>]
    ELSE LET x == Head(elems)
             n == New(h, Patched(h[x], how, arg))
             hit == h[x].id = id
             rest == MapById(IF hit THEN n.heap ELSE h, Tail(elems), id, how, arg)
         IN  [heap |-> rest.heap,
              elems |-> <<IF hit THEN n.ref ELSE x>> \o rest.elems]

\* elems.filter(x => x.id !== id)
FilterOutId(h, elems, id) == SelectSeq(elems, LAMBDA x : h[x].id # id)

\* elems.filter(todo => !todo.completed)
FilterActive(h, elems) == SelectSeq(elems, LAMBDA x : ~h[x].completed)

\* elems.find(x => x.id === id): the first match, or undefined.
Find(h, elems, id) ==
    IF \E i \in DOMAIN elems : h[elems[i]].id = id
    THEN elems[CHOOSE i \in DOMAIN elems :
                   /\ h[elems[i]].id = id
                   /\ \A j \in DOMAIN elems : h[elems[j]].id = id => i <= j]
    ELSE undefined

-----------------------------------------------------------------------------
(* PATTERN 3: todoReducer *)

todoReducer(h, state, action) ==
    LET todos == h[h[state].todos].elems IN
    CASE action.type = "ADD_TODO" ->
           LET t == New(h, [id |-> h[state].nextId, text |-> action.text, completed |-> FALSE])
               a == New(t.heap, [elems |-> Append(todos, t.ref)])
               n == New(a.heap, [h[state] EXCEPT !.todos = a.ref, !.nextId = @ + 1])
           IN  Returns(n.heap, n.ref)
      [] action.type = "TOGGLE_TODO" ->
           LET m == MapById(h, todos, action.id, "toggle", "")
               a == New(m.heap, [elems |-> m.elems])
               n == New(a.heap, [h[state] EXCEPT !.todos = a.ref])
           IN  Returns(n.heap, n.ref)
      [] action.type = "DELETE_TODO" ->
           LET a == New(h, [elems |-> FilterOutId(h, todos, action.id)])
               n == New(a.heap, [h[state] EXCEPT !.todos = a.ref])
           IN  Returns(n.heap, n.ref)
      [] action.type = "EDIT_TODO" ->
           LET m == MapById(h, todos, action.id, "text", action.text)
               a == New(m.heap, [elems |-> m.elems])
               n == New(a.heap, [h[state] EXCEPT !.todos = a.ref])
           IN  Returns(n.heap, n.ref)
      [] action.type = "SET_FILTER" ->
           LET n == New(h, [h[state] EXCEPT !.filter = action.filter])
           IN  Returns(n.heap, n.ref)
      [] action.type = "CLEAR_COMPLETED" ->
           LET a == New(h, [elems |-> FilterActive(h, todos)])
               n == New(a.heap, [h[state] EXCEPT !.todos = a.ref])
           IN  Returns(n.heap, n.ref)
      [] OTHER -> Returns(h, state)

-----------------------------------------------------------------------------
(* PATTERN 4: cartReducer *)

cartReducer(h, state, action) ==
    LET items == h[h[state].items].elems IN
    CASE action.type = "ADD_ITEM" ->
           IF Find(h, items, action.item.id) # undefined
           THEN LET m == MapById(h, items, action.item.id, "plusOne", 0)
                    a == New(m.heap, [elems |-> m.elems])
                    n == New(a.heap, [items |-> a.ref,
                                      total |-> h[state].total + action.item.price])
                IN  Returns(n.heap, n.ref)
           ELSE LET i == New(h, [id |-> action.item.id, name |-> action.item.name,
                                 price |-> action.item.price, quantity |-> 1])
                    a == New(i.heap, [elems |-> Append(items, i.ref)])
                    n == New(a.heap, [items |-> a.ref,
                                      total |-> h[state].total + action.item.price])
                IN  Returns(n.heap, n.ref)
      [] action.type = "REMOVE_ITEM" ->
           LET item == Find(h, items, action.id) IN
           IF item = undefined
           THEN Throws(h, "TypeError", state)      \* item.price of undefined
           ELSE LET a == New(h, [elems |-> FilterOutId(h, items, action.id)])
                    n == New(a.heap, [items |-> a.ref,
                                      total |-> h[state].total
                                                 - (h[item].price * h[item].quantity)])
                IN  Returns(n.heap, n.ref)
      [] action.type = "UPDATE_QUANTITY" ->
           LET item == Find(h, items, action.id) IN
           IF item = undefined
           THEN Throws(h, "TypeError", state)      \* item.quantity of undefined
           ELSE LET quantityDiff == action.quantity - h[item].quantity
                    m == MapById(h, items, action.id, "quantity", action.quantity)
                    a == New(m.heap, [elems |-> m.elems])
                    n == New(a.heap, [items |-> a.ref,
                                      total |-> h[state].total
                                                 + (h[item].price * quantityDiff)])
                IN  Returns(n.heap, n.ref)
      [] action.type = "CLEAR_CART" -> Returns(h, cartInitialState)
      [] OTHER -> Returns(h, state)

-----------------------------------------------------------------------------
(* UseReducerDemo: the four useReducer hooks and their dispatch functions *)

\* Where an object lives once the render that produced it is over.  Between
\* two events only the objects a hook's state references survive; they are
\* renamed to one fixed reference per role (an isomorphism of the heap that
\* fixes the module constants), so that two heaps of the same shape are equal.
Base == Cardinality(ModuleConstants)

Slots(h, c, f, t, k) ==
    LET todos == h[h[t].todos].elems
        items == h[h[k].items].elems
    IN  {<<c, Base>>, <<f, Base + 1>>, <<h[f].errors, Base + 2>>,
         <<t, Base + 3>>, <<h[t].todos, Base + 4>>,
         <<k, Base + 5>>, <<h[k].items, Base + 6>>}
          \cup {<<todos[i], Base + 5 + 2 * i>> : i \in DOMAIN todos}
          \cup {<<items[i], Base + 6 + 2 * i>> : i \in DOMAIN items}

Renamed(h, c, f, t, k, r) ==
    IF r \in ModuleConstants THEN r
    ELSE (CHOOSE p \in Slots(h, c, f, t, k) : p[1] = r)[2]

\* The heap after the render: unreferenced objects are collected, the rest
\* renamed, with every reference they hold renamed alike.
Settle(h, c, f, t, k) ==
    LET ren(r) == Renamed(h, c, f, t, k, r)
        live == ModuleConstants \cup {p[1] : p \in Slots(h, c, f, t, k)}
        moved(r) ==
            IF r = f THEN [h[r] EXCEPT !.errors = ren(@)]
            ELSE IF r = t THEN [h[r] EXCEPT !.todos = ren(@)]
            ELSE IF r = k THEN [h[r] EXCEPT !.items = ren(@)]
            ELSE IF r \in {h[t].todos, h[k].items}
                 THEN [elems |-> [i \in DOMAIN h[r].elems |-> ren(h[r].elems[i])]]
            ELSE h[r]
    IN  [heap |-> [q \in {ren(r) : r \in live} |->
                      moved(CHOOSE r \in live : ren(r) = q)],
         counter |-> ren(c), form |-> ren(f), todo |-> ren(t), cart |-> ren(k)]

\* useReducer: the hook keeps the reference the reducer returned; a reducer
\* that throws leaves every hook as it was and takes the component down.
Commit(res, c, f, t, k) ==
    LET s == Settle(res.heap, c, f, t, k) IN
    /\ heap' = s.heap
    /\ counterState' = s.counter
    /\ formState' = s.form
    /\ todoState' = s.todo
    /\ cartState' = s.cart
    /\ demoError' = (IF res.outcome = "state" THEN "none" ELSE res.outcome)

\* What the latest dispatch did, as seen from outside the reducer:
\*   same    - the returned reference is the state object it was given
\*   mutated - some object that existed before the call has changed
\*   pre     - the count (counter), nextId (todo) or total (cart) of the input
Observe(name, action, h, state, res, pre) ==
    [reducer |-> name, type |-> action.type, outcome |-> res.outcome,
     same |-> (res.outcome = "state" /\ res.ref = state),
     mutated |-> (\E r \in DOMAIN h : r \notin DOMAIN res.heap \/ res.heap[r] # h[r]),
     pre |-> pre]

NoCall == [reducer |-> "none", type |-> "none", outcome |-> "none",
           same |-> FALSE, mutated |-> FALSE, pre |-> 0]

\* counterDispatch(action): React queues the update and renders; the reducer
\* runs during that render and a throw there takes the component down.
CounterDispatch(a) ==
    LET res == counterReducer(heap, counterState, a) IN
    /\ demoError = "none"
    /\ res.outcome = "state" => res.heap[res.ref].count \in -MaxCount..MaxCount
    /\ Commit(res, (IF res.outcome = "state" THEN res.ref ELSE counterState),
              formState,
              todoState,
              cartState)
    /\ lastCall' = Observe("counter", a, heap, counterState, res, heap[counterState].count)

\* formDispatch(action), on a heap h that already holds the action's payload.
FormDispatchOn(h, a) ==
    LET res == formReducer(h, formState, a) IN
    /\ demoError = "none"
    /\ Commit(res, counterState,
              (IF res.outcome = "state" THEN res.ref ELSE formState),
              todoState,
              cartState)
    /\ lastCall' = Observe("form", a, h, formState, res, 0)

FormDispatch(a) == FormDispatchOn(heap, a)

\* The texts typed into the form. TLA+ strings have no characters to look
\* at, so what String.prototype.length, trim, the e-mail pattern and parseInt
\* give is tabulated for them.
UsernameInputs == {"", " ", "jo", "john"}
EmailInputs == {"", "john", "j@x.io"}
PasswordInputs == {"", "abc", "secret"}
AgeInputs == {"", "x", "0", "17", "30"}

length(s) ==
    CASE s = "" -> 0
      [] s \in {" ", "x", "0"} -> 1
      [] s \in {"jo", "17", "30"} -> 2
      [] s = "abc" -> 3
      [] s = "john" -> 4
      [] s \in {"j@x.io", "secret"} -> 6

\* s.trim()
trim(s) == IF s = " " THEN "" ELSE s

\* /\S+@\S+\.\S+/.test(s)
EmailPattern(s) == s = "j@x.io"

NaN == -3

\* parseInt(s)
parseInt(s) ==
    CASE s = "0" -> 0
      [] s = "17" -> 17
      [] s = "30" -> 30
      [] OTHER -> NaN

\* The state keeps a number as its decimal numeral: the age field holds the
\* numeral or '', and a comparison reads the numeral as the number.
Numeral(n) == CASE n = 17 -> "17" [] n = 30 -> "30"

\* value: parseInt(e.target.value) || ''   (NaN and 0 are falsy)
ParseIntOrEmpty(s) == IF parseInt(s) \in {NaN, 0} THEN "" ELSE Numeral(parseInt(s))

\* The value an input's onChange puts into UPDATE_FIELD
FieldValue(field, text) == IF field = "age" THEN ParseIntOrEmpty(text) ELSE text

FieldInputs(field) ==
    CASE field = "username" -> UsernameInputs
      [] field = "email" -> EmailInputs
      [] field = "password" -> PasswordInputs
      [] field = "age" -> AgeInputs

\* validateForm(): the message of each field that does not pass, keyed by field
validateForm(state) ==
    LET message ==
          [username |->
             IF trim(state.username) = "" THEN "Username is required"
             ELSE IF length(state.username) < 3
                  THEN "Username must be at least 3 characters" ELSE "",
           email |->
             IF trim(state.email) = "" THEN "Email is required"
             ELSE IF ~EmailPattern(state.email) THEN "Email is invalid" ELSE "",
           password |->
             IF state.password = "" THEN "Password is required"
             ELSE IF length(state.password) < 6
                  THEN "Password must be at least 6 characters" ELSE "",
           age |->
             IF state.age = "" THEN "Age is required"
             \* formState.age < 18 || formState.age > 100, on the number kept
             ELSE IF parseInt(state.age) < 18 \/ parseInt(state.age) > 100
                  THEN "Age must be between 18 and 100" ELSE ""]
    IN  [f \in {g \in DOMAIN message : message[g] # ""} |-> message[f]]

\* formDispatch({ type: 'SET_ERRORS', errors }): the errors object is
\* allocated by validateForm and its reference handed to the reducer.
FormSetErrors(fields) ==
    LET e == New(heap, [fields |-> fields])
    IN  FormDispatchOn(e.heap, [type |-> "SET_ERRORS", field |-> "", value |-> "",
                                error |-> "", errors |-> e.ref])

\* The form's onSubmit; the Submit button is disabled while isSubmitting.
\* With errors: SET_ERRORS and return. Without: SUBMIT_START, and a timeout
\* that will dispatch SUBMIT_SUCCESS.
handleFormSubmit ==
    LET errors == validateForm(heap[formState]) IN
    /\ ~heap[formState].isSubmitting
    /\ IF DOMAIN errors # {}
       THEN /\ FormSetErrors(errors)
            /\ UNCHANGED submitTimers
       ELSE /\ submitTimers < MaxPendingSubmits
            /\ FormDispatch([type |-> "SUBMIT_START", field |-> "", value |-> "",
                             error |-> "", errors |-> 0])
            /\ submitTimers' = submitTimers + 1

\* The callback of handleFormSubmit's setTimeout: after the log and the
\* alert, formDispatch({ type: 'SUBMIT_SUCCESS' }). The timeout is never
\* cleared, so it also runs once the component is gone, when the dispatch
\* does nothing.
SubmitTimeout ==
    /\ submitTimers > 0
    /\ submitTimers' = submitTimers - 1
    /\ IF demoError = "none"
       THEN FormDispatch([type |-> "SUBMIT_SUCCESS", field |-> "", value |-> "",
                          error |-> "", errors |-> 0])
       ELSE UNCHANGED <<heap, counterState, formState, todoState, cartState,
                        demoError, lastCall>>

\* A todo dispatch whose DELETE_TODO also winds nextId back to the length of
\* the list plus one.
TodoDispatchRewindingNextId(a) ==
    LET r == todoReducer(heap, todoState, a)
        res == IF a.type = "DELETE_TODO" /\ r.outcome = "state"
               THEN [r EXCEPT !.heap[r.ref].nextId =
                                  Len(r.heap[r.heap[r.ref].todos].elems) + 1]
               ELSE r
    IN
    /\ demoError = "none"
    /\ res.outcome = "state" =>
          /\ Len(res.heap[res.heap[res.ref].todos].elems) <= MaxTodos
          /\ res.heap[res.ref].nextId <= MaxNextId
    /\ Commit(res, counterState,
              formState,
              (IF res.outcome = "state" THEN res.ref ELSE todoState),
              cartState)
    /\ lastCall' = Observe("todo", a, heap, todoState, res, heap[todoState].nextId)

TodoDispatch(a) ==
    LET res == todoReducer(heap, todoState, a) IN
    /\ demoError = "none"
    /\ res.outcome = "state" =>
          /\ Len(res.heap[res.heap[res.ref].todos].elems) <= MaxTodos
          /\ res.heap[res.ref].nextId <= MaxNextId
    /\ Commit(res, counterState,
              formState,
              (IF res.outcome = "state" THEN res.ref ELSE todoState),
              cartState)
    /\ lastCall' = Observe("todo", a, heap, todoState, res, heap[todoState].nextId)

\* A cart dispatch whose CLEAR_CART also puts the todo list back to its start.
CartDispatchClearsAll(a) ==
    LET res == cartReducer(heap, cartState, a) IN
    /\ demoError = "none"
    /\ res.outcome = "state" =>
          \A i \in Range(res.heap[res.heap[res.ref].items].elems) :
              res.heap[i].quantity <= MaxQty
    /\ Commit(res, counterState, formState,
              IF a.type = "CLEAR_CART" THEN todoInitialState ELSE todoState,
              IF res.outcome = "state" THEN res.ref ELSE cartState)
    /\ lastCall' = Observe("cart", a, heap, cartState, res, heap[cartState].total)

CartDispatch(a) ==
    LET res == cartReducer(heap, cartState, a) IN
    /\ demoError = "none"
    /\ res.outcome = "state" =>
          \A i \in Range(res.heap[res.heap[res.ref].items].elems) :
              res.heap[i].quantity <= MaxQty
    /\ Commit(res, counterState,
              formState,
              todoState,
              (IF res.outcome = "state" THEN res.ref ELSE cartState))
    /\ lastCall' = Observe("cart", a, heap, cartState, res, heap[cartState].total)

-----------------------------------------------------------------------------
(* The actions a dispatch is tried with: those the page dispatches, and one *)
(* of a type no reducer knows.                                              *)

CounterActions ==
    {[type |-> t, payload |-> 0] : t \in {"INCREMENT", "DECREMENT", "RESET", "UNKNOWN"}}
        \cup {[type |-> "INCREMENT_BY", payload |-> 5]}

FormFields == {"username", "email", "password", "age"}

\* UPDATE_FIELD as each input's onChange dispatches it, and the other types
\* the reducer has a case for (SET_ERROR, SUBMIT_FAILURE) or has none for.
FormActions ==
    UNION {{[type |-> "UPDATE_FIELD", field |-> f, value |-> FieldValue(f, x),
             error |-> "", errors |-> 0] : x \in FieldInputs(f)} : f \in FormFields}
        \cup {[type |-> "SET_ERROR", field |-> "email", value |-> "",
                error |-> "Email is taken", errors |-> 0]}
        \cup {[type |-> t, field |-> "", value |-> "", error |-> "", errors |-> 0] :
                 t \in {"SUBMIT_START", "SUBMIT_SUCCESS", "SUBMIT_FAILURE",
                        "RESET_FORM", "UNKNOWN"}}

TodoActions ==
    {[type |-> "ADD_TODO", id |-> 0, text |-> x, filter |-> ""] : x \in {"a", "b"}}
        \cup {[type |-> t, id |-> i, text |-> "", filter |-> ""] :
                 t \in {"TOGGLE_TODO", "DELETE_TODO"}, i \in 1..MaxNextId}
        \cup {[type |-> "EDIT_TODO", id |-> i, text |-> "b", filter |-> ""] :
                 i \in 1..MaxNextId}
        \cup {[type |-> "SET_FILTER", id |-> 0, text |-> "", filter |-> f] :
                 f \in {"all", "active", "completed"}}
        \cup {[type |-> t, id |-> 0, text |-> "", filter |-> ""] :
                 t \in {"CLEAR_COMPLETED", "UNKNOWN"}}

CartActions ==
    {[type |-> "ADD_ITEM", item |-> p, id |-> 0, quantity |-> 0] : p \in Range(products)}
        \cup {[type |-> "REMOVE_ITEM", item |-> products[1], id |-> i, quantity |-> 0] :
                 i \in 1..Len(products)}
        \cup {[type |-> "UPDATE_QUANTITY", item |-> products[1], id |-> i, quantity |-> q] :
                 i \in 1..Len(products), q \in 1..MaxQty}
        \cup {[type |-> t, item |-> products[1], id |-> 0, quantity |-> 0] :
                 t \in {"CLEAR_CART", "UNKNOWN"}}

-----------------------------------------------------------------------------
(* Counter: the two versions of the component *)

\* "closure": increment = () => setCount(count + 1)     (Counter.jsx)
\* "updater": increment = () => setCount((c) => c + 1)  (the later version)
CounterVariants == {"closure", "updater"}

NoClick == [variant |-> "none", button |-> "none", pre |-> 0]

\* A render that leaves the handlers' closures on the count of the mount.
StaleRender(c) == 0

\* A click runs the handler, which calls setCount; React then renders the
\* component again before the next event, so the closures see the new count.
Render(c) == c

Click(v, button, next) ==
    /\ next \in -MaxCount..MaxCount
    /\ count' = [count EXCEPT ![v] = next]
    /\ shown' = [shown EXCEPT ![v] = Render(next)]
    /\ lastClick' = [variant |-> v, button |-> button, pre |-> count[v]]

increment(v) ==
    Click(v, "Increment", IF v = "closure" THEN shown[v] + 1 ELSE count[v] + 1)

decrement(v) == Click(v, "Decrement", shown[v] - 1)

reset(v) == Click(v, "Reset", 0)

-----------------------------------------------------------------------------
(* UseEffectDemo *)

DebounceDelay == 500
TimerPeriod == 1000

SearchTerms == {"", "re", "react"}

Min(a, b) == IF a < b THEN a ELSE b
Max(a, b) == IF a > b THEN a ELSE b

Digit(d) == <<"0", "1", "2", "3", "4", "5", "6", "7", "8", "9">>[d + 1]

RECURSIVE Digits(_)
Digits(n) == IF n < 10 THEN Digit(n) ELSE Digits(n \div 10) \o Digit(n % 10)

\* Number.prototype.toString of an integer
toString(n) == IF n < 0 THEN "-" \o Digits(-n) ELSE Digits(n)

\* useState initial values of UseEffectDemo
UnmountedState ==
    [mounted |-> FALSE, count |-> 0, seconds |-> 0, isTimerRunning |-> FALSE,
     searchTerm |-> "", debouncedTerm |-> ""]

\* window.setTimeout / window.setInterval hand out ids never handed out before;
\* the smallest id that no timer and no closure holds stands for it.
NextTimerId(touts, ivals, held) ==
    CHOOSE i \in 1..(Cardinality(DOMAIN touts \cup DOMAIN ivals \cup held) + 1) :
        /\ i \notin DOMAIN touts \cup DOMAIN ivals \cup held
        /\ \A j \in 1..i : j < i => j \in DOMAIN touts \cup DOMAIN ivals \cup held

\* clearTimeout(id) / clearInterval(id): a no-op for an id that is not pending
Clear(timers, id) == [i \in DOMAIN timers \ {id} |-> timers[i]]

\* An effect that saves nothing.
SaveNothing(storage, c) == storage

\* PATTERN 3: localStorage.setItem('savedCount', count.toString())
SaveCount(storage, c) ==
    [k \in DOMAIN storage \cup {"savedCount"} |->
        IF k = "savedCount" THEN toString(c) ELSE storage[k]]

\* A cleanup that leaves the timer it scheduled pending.
KeepTimeout(timers, id) == timers

\* PATTERN 7 cleanup: clearTimeout(timer)
CancelDebounce(timers, id) == Clear(timers, id)

\* A cleanup that leaves the interval it started running.
KeepInterval(timers, id) == timers

\* PATTERN 5 cleanup: if (interval) clearInterval(interval)
CancelInterval(timers, id) == IF id # undefined THEN Clear(timers, id) ELSE timers

NoEvent == [event |-> "none", term |-> "", stableFor |-> 0]
Event(e) == [event |-> e, term |-> "", stableFor |-> 0]

\* The first render and the effects that follow it.
Mount ==
    LET id == NextTimerId(timeouts, intervals, {}) IN
    /\ ~ue.mounted
    /\ ue' = [UnmountedState EXCEPT !.mounted = TRUE]
    /\ title' = "useEffect Demo - React Hooks"
    /\ localStorage' = SaveCount(localStorage, 0)
    /\ interval' = undefined
    /\ intervals' = intervals
    /\ timer' = id
    /\ timeouts' = timeouts @@ (id :> [term |-> "", remaining |-> DebounceDelay])
    /\ sinceChange' = 0
    /\ ueLast' = Event("mount")

\* Every effect's cleanup runs when the component unmounts; its state is dropped.
Unmount ==
    /\ ue.mounted
    /\ ue' = UnmountedState
    /\ title' = "React App"
    /\ intervals' = CancelInterval(intervals, interval)
    /\ timeouts' = CancelDebounce(timeouts, timer)
    /\ interval' = undefined
    /\ timer' = undefined
    /\ sinceChange' = 0
    /\ ueLast' = Event("unmount")
    /\ UNCHANGED localStorage

\* setCount(next) from a click: a render if the count changed, and then the
\* PATTERN 3 effect, whose dependency is count.
SetCount(next, button) ==
    /\ ue.mounted
    /\ next \in -MaxEffectCount..MaxEffectCount
    /\ ue' = [ue EXCEPT !.count = next]
    /\ localStorage' = (IF next # ue.count THEN SaveCount(localStorage, next)
                        ELSE localStorage)
    /\ ueLast' = Event(button)
    /\ UNCHANGED <<title, timeouts, intervals, timer, interval, sinceChange>>

UeIncrement == SetCount(ue.count + 1, "Increment")
UeDecrement == SetCount(ue.count - 1, "Decrement")
UeReset == SetCount(0, "Reset")

\* A render in which isTimerRunning became `running` and seconds `secs`:
\* PATTERN 5 runs its cleanup and then the effect, if isTimerRunning changed.
SetTimer(running, secs, button) ==
    LET changed == running # ue.isTimerRunning
        cleared == CancelInterval(intervals, interval)
        id == NextTimerId(timeouts, cleared, {timer})
    IN  /\ ue.mounted
        /\ ue' = [ue EXCEPT !.isTimerRunning = running, !.seconds = secs]
        /\ intervals' = (IF ~changed THEN intervals
                         ELSE IF running THEN cleared @@ (id :> [remaining |-> TimerPeriod])
                         ELSE cleared)
        /\ interval' = (IF ~changed THEN interval
                        ELSE IF running THEN id ELSE undefined)
        /\ ueLast' = Event(button)
        /\ UNCHANGED <<localStorage, title, timeouts, timer, sinceChange>>

toggleTimer == SetTimer(~ue.isTimerRunning, ue.seconds, "toggleTimer")
resetTimer == SetTimer(FALSE, 0, "resetTimer")

\* The interval's callback: setSeconds(prev => prev + 1), and the next period starts.
IntervalTick ==
    \E id \in DOMAIN intervals :
        /\ intervals[id].remaining = 0
        /\ ue.seconds < MaxSeconds
        /\ ue' = [ue EXCEPT !.seconds = @ + 1]
        /\ intervals' = [intervals EXCEPT ![id].remaining = TimerPeriod]
        /\ ueLast' = Event("tick")
        /\ UNCHANGED <<localStorage, title, timeouts, timer, interval, sinceChange>>

\* A keystroke after which the debounce effect does not run again.
TypeWithoutEffect(value) ==
    /\ ue.mounted
    /\ value # ue.searchTerm
    /\ ue' = [ue EXCEPT !.searchTerm = value]
    /\ sinceChange' = 0
    /\ ueLast' = Event("type")
    /\ UNCHANGED <<localStorage, title, timeouts, timer, intervals, interval>>

\* onChange of the search input: setSearchTerm(value), a render, and PATTERN 7:
\* the cleanup of the previous effect, then a new timer for the new term.
Type(value) ==
    LET cleared == CancelDebounce(timeouts, timer)
        id == NextTimerId(cleared, intervals, {interval})
    IN  /\ ue.mounted
        /\ value # ue.searchTerm
        /\ ue' = [ue EXCEPT !.searchTerm = value]
        /\ timeouts' = cleared @@ (id :> [term |-> value, remaining |-> DebounceDelay])
        /\ timer' = id
        /\ sinceChange' = 0
        /\ ueLast' = Event("type")
        /\ UNCHANGED <<localStorage, title, intervals, interval>>

\* A debounce timer whose delay has passed runs: setDebouncedTerm(searchTerm),
\* with the searchTerm of the render that scheduled it.
DebounceFire ==
    \E id \in DOMAIN timeouts :
        /\ timeouts[id].remaining = 0
        /\ ue' = (IF ue.mounted THEN [ue EXCEPT !.debouncedTerm = timeouts[id].term] ELSE ue)
        /\ timeouts' = Clear(timeouts, id)
        /\ ueLast' = [event |-> "debounce", term |-> timeouts[id].term,
                      stableFor |-> sinceChange]
        /\ UNCHANGED <<localStorage, title, intervals, timer, interval, sinceChange>>

\* Time passes: every timer comes closer to running.
Advance ==
    /\ \/ \E id \in DOMAIN timeouts : timeouts[id].remaining > 0
       \/ \E id \in DOMAIN intervals : intervals[id].remaining > 0
       \/ sinceChange < DebounceDelay /\ ue.mounted
    /\ timeouts' = [id \in DOMAIN timeouts |->
                       [timeouts[id] EXCEPT !.remaining = Max(0, @ - Quantum)]]
    /\ intervals' = [id \in DOMAIN intervals |->
                        [intervals[id] EXCEPT !.remaining = Max(0, @ - Quantum)]]
    /\ sinceChange' = (IF ue.mounted THEN Min(DebounceDelay, sinceChange + Quantum) ELSE 0)
    /\ ueLast' = Event("time")
    /\ UNCHANGED <<ue, localStorage, title, timer, interval>>

-----------------------------------------------------------------------------
(* UseCallbackDemo *)

\* Identities of the values the hooks of UseCallbackDemo hand back in every
\* render: a useCallback with no dependencies keeps the function of the first
\* render, a useState keeps its array.
handleClickStable == 1
handleSearchWithCallback == 2
handleToggleTodo == 3
handleDeleteTodo == 4
handleItemAClickWith == 5
handleItemBClick == 6
listAItems == 7
listBItems == 8

HookValues == {handleClickStable, handleSearchWithCallback, handleToggleTodo,
               handleDeleteTodo, handleItemAClickWith, handleItemBClick,
               listAItems, listBItems}

\* useState([...]): the three todos of the first render, each an object.
InitialTodos ==
    << [id |-> 1, text |-> "Learn useCallback", completed |-> FALSE, ref |-> 1],
       [id |-> 2, text |-> "Optimize performance", completed |-> FALSE, ref |-> 2],
       [id |-> 3, text |-> "Build awesome apps", completed |-> FALSE, ref |-> 3] >>

SearchQueries == {"", "item"}

\* The n-th smallest identity not in use: what the n-th object or function
\* literal evaluated in a render gets.
RECURSIVE FreshId(_, _)
FreshId(used, n) ==
    LET least == CHOOSE i \in 0..Cardinality(used) :
                     i \notin used /\ \A j \in 0..Cardinality(used) : j < i => j \in used
    IN  IF n = 1 THEN least ELSE FreshId(used \cup {least}, n - 1)

\* Identities are compared only between values of one kind, so each kind has
\* its own: the todo objects, and the functions and objects of a render.

\* The todo objects the state or some TodoItem's props still hold.
HeldTodos(props, todos) ==
    {t.ref : t \in Range(todos)}
        \cup {props[c][1] : c \in {d \in DOMAIN props : d[1] = "TodoItem"}}

\* The functions and objects a hook or some other child's props still hold.
Held(props) ==
    HookValues
        \cup UNION {{props[c][i] : i \in {1, 3}} :
                      c \in {d \in DOMAIN props : d[1] # "TodoItem"}}

\* The child elements of UseCallbackDemo: the component and, for a list item, its key.
RegularButton == <<"RegularButton", 0>>
MemoWithoutCallback == <<"MemoizedButton", 1>>
MemoWithCallback == <<"MemoizedButton", 2>>
SearchResults == <<"SearchResults", 0>>
ListA == <<"ItemList", 1>>
ListB == <<"ItemList", 2>>
TodoItem(id) == <<"TodoItem", id>>

\* The children wrapped in React.memo
MemoChildren(todos) ==
    {MemoWithoutCallback, MemoWithCallback, SearchResults, ListA, ListB}
        \cup {TodoItem(t.id) : t \in Range(todos)}

ButtonChildren == {RegularButton, MemoWithoutCallback, MemoWithCallback}

Children(todos) == {RegularButton} \cup MemoChildren(todos)

\* const regularButtonRenders = { current: 0 }; ... : three new objects in
\* every render of the parent.
NewCounters(prev, used) ==
    [c \in ButtonChildren |->
        [ref |-> FreshId(used, CASE c = RegularButton -> 2
                                 [] c = MemoWithoutCallback -> 3
                                 [] c = MemoWithCallback -> 4),
         current |-> 0]]

\* A search handler made anew in every render.
SearchHandlerPerRender(perRender) == perRender

\* onSearch={handleSearchWithCallback}
SearchHandler(perRender) == handleSearchWithCallback

\* The props each child is given by a render of the parent: three values per
\* child, identities for functions and objects, the string itself for strings.
PropsOf(c, state, counters, perRender) ==
    CASE c = RegularButton -> <<perRender, "Regular Button", counters[c].ref>>
      [] c = MemoWithoutCallback -> <<perRender, "Memo Without Callback", counters[c].ref>>
      [] c = MemoWithCallback -> <<handleClickStable, "Memo With Callback", counters[c].ref>>
      [] c = SearchResults -> <<SearchHandler(perRender), state.searchQuery, 0>>
      [] c = ListA -> <<listAItems, "List A (with useCallback)", handleItemAClickWith>>
      [] c = ListB -> <<listBItems, "List B (with useCallback)", handleItemBClick>>
      [] OTHER -> <<(CHOOSE t \in Range(state.todos) : t.id = c[2]).ref,
                    handleDeleteTodo, handleToggleTodo>>

\* Once a render is over, the identities it made are renamed to the smallest
\* ones that nothing outside that render holds, and each todo object to its
\* todo's id: a renaming of the live objects, which no comparison can see.
Settled(todos) == [i \in DOMAIN todos |-> [todos[i] EXCEPT !.ref = todos[i].id]]

\* A render of UseCallbackDemo with the hook values `state`: the function and
\* object literals of the body are evaluated, then every child is rendered
\* unless it is a memo component whose props are all identical to its last ones.
RenderParent(state, event) ==
    LET used == Held(childProps)
        perRender == FreshId(used, 1)      \* handleClickWithoutCallback
        counters == NewCounters(renderCounters, used)
        kids == Children(state.todos)
        props == [c \in kids |-> PropsOf(c, state, counters, perRender)]
        again == {c \in kids : \/ c \notin MemoChildren(state.todos)
                               \/ c \notin DOMAIN childProps
                               \/ childProps[c] # props[c]}
        kept == Held([c \in kids \ again |-> childProps[c]])
        settled == [state EXCEPT !.todos = Settled(@)]
        objects == NewCounters(renderCounters, kept)
    IN  /\ cb' = settled
        /\ childProps' = [c \in kids |->
                             IF c \in again
                             THEN PropsOf(c, settled, objects, FreshId(kept, 1))
                             ELSE childProps[c]]
        /\ rendered' = again
        \* <p>Renders: {renderCount.current++}</p>
        /\ displayed' = [c \in ButtonChildren |->
                            IF c \in again THEN counters[c].current ELSE displayed[c]]
        /\ renderCounters' = [c \in ButtonChildren |->
                                 IF c \in again
                                 THEN [objects[c] EXCEPT !.current = @ + 1]
                                 ELSE objects[c]]
        /\ cbLast' = event

\* onClick={() => setCount(count + 1)}
IncrementCount ==
    /\ cb.count + 1 <= MaxCallbackCount
    /\ RenderParent([cb EXCEPT !.count = @ + 1], "IncrementCount")

\* onClick={() => setOtherState(otherState + 1)}: "Update Other State" and the
\* three "Trigger Parent Re-render" buttons
UpdateOtherState ==
    /\ cb.otherState + 1 <= MaxOtherState
    /\ RenderParent([cb EXCEPT !.otherState = @ + 1], "UpdateOtherState")

\* onChange={(e) => setSearchQuery(e.target.value)}
Search(query) ==
    /\ query # cb.searchQuery
    /\ RenderParent([cb EXCEPT !.searchQuery = query], "Search")

\* A toggle that rebuilds every todo of the list, not only the one toggled.
ToggledAllRebuilt(todos, id, used) ==
    [i \in DOMAIN todos |->
        [todos[i] EXCEPT !.completed = IF todos[i].id = id THEN ~@ ELSE @,
                         !.ref = FreshId(used, i)]]

\* todo.id === id ? { ...todo, completed: !todo.completed } : todo
ToggledTodos(todos, id, used) ==
    [i \in DOMAIN todos |->
        IF todos[i].id = id
        THEN [todos[i] EXCEPT !.completed = ~@, !.ref = FreshId(used, 1)]
        ELSE todos[i]]

handleToggleTodoClick(id) ==
    /\ id \in {t.id : t \in Range(cb.todos)}
    /\ RenderParent([cb EXCEPT !.todos = ToggledTodos(@, id, HeldTodos(childProps, cb.todos))],
                    "ToggleTodo")

handleDeleteTodoClick(id) ==
    /\ id \in {t.id : t \in Range(cb.todos)}
    /\ RenderParent([cb EXCEPT !.todos = SelectSeq(@, LAMBDA t : t.id # id)], "DeleteTodo")

\* handleIncrementBy(amount): setCount(prevCount => prevCount + amount)
handleIncrementBy(amount) ==
    /\ cb.count + amount <= MaxCallbackCount
    /\ RenderParent([cb EXCEPT !.count = @ + amount], "IncrementBy")

-----------------------------------------------------------------------------
(* UseRefDemo *)

null == -2

Names == {"", "a"}

\* useState and useRef initial values of UseRefDemo
RefUnmountedState == [mounted |-> FALSE, count |-> 0, renderCount |-> 0, name |-> "",
                      videoPlaying |-> FALSE]
InitialRefs == [previousCount |-> 0, renderCount |-> 0, timer |-> null, hasRendered |-> FALSE]

NothingShown == [count |-> 0, previous |-> 0, renders |-> 0]

\* A render of UseRefDemo with the hook values `state`, and its effects:
\* the JSX reads previousCountRef.current and renderCountRef.current as they
\* are during the render; PATTERN 1 then counts the render, PATTERN 2 stores
\* count if it changed (or on the first render), PATTERN 3 notes the first render.
RenderRef(state, first, event) ==
    /\ renders < MaxRenders
    /\ ur' = state
    /\ shownRef' = [count |-> state.count,
                    previous |-> refs.previousCount,
                    renders |-> refs.renderCount]
    /\ refs' = [refs EXCEPT
                  !.renderCount = @ + 1,
                  !.previousCount = IF first \/ state.count # ur.count
                                    THEN state.count ELSE @,
                  !.hasRendered = IF first \/ state.name # ur.name THEN TRUE ELSE @]
    /\ renders' = renders + 1
    /\ countBefore' = IF state.count # ur.count THEN ur.count ELSE countBefore
    /\ urLast' = event

\* The first render of the component and the effects that follow it.
UrMount ==
    /\ ~ur.mounted
    /\ refs = InitialRefs
    /\ RenderRef([RefUnmountedState EXCEPT !.mounted = TRUE], TRUE, "mount")
    /\ UNCHANGED <<urIntervals, urQueued>>

\* Cleanup timer on unmount: if (timerRef.current) clearInterval(timerRef.current);
\* the component's state and refs are dropped.
UrUnmount ==
    /\ ur.mounted
    /\ ur' = RefUnmountedState
    /\ urIntervals' = (IF refs.timer # null THEN Clear(urIntervals, refs.timer)
                       ELSE urIntervals)
    /\ refs' = InitialRefs
    /\ shownRef' = NothingShown
    /\ renders' = 0
    /\ countBefore' = 0
    /\ urQueued' = 0
    /\ urLast' = "unmount"

\* setCount(next) in a click handler: a render unless the count is what it
\* was. The click's update is rendered at once, ahead of any c => c + 1 an
\* interval callback has queued; the queue is then replayed in order and
\* ends on `next` as well, so the queued updates leave no trace.
UrSetCount(next, event) ==
    /\ ur.mounted
    /\ next \in -MaxRefCount..MaxRefCount
    /\ IF next # ur.count
       THEN RenderRef([ur EXCEPT !.count = next], FALSE, event)
       ELSE /\ urLast' = event
            /\ UNCHANGED <<ur, refs, shownRef, renders, countBefore>>
    /\ urQueued' = 0
    /\ UNCHANGED urIntervals

\* onClick={() => setCount(count + 1)}
UrIncrement == UrSetCount(shownRef.count + 1, "Increment")
\* onClick={() => setCount(count - 1)}
UrDecrement == UrSetCount(shownRef.count - 1, "Decrement")
\* onClick={() => setCount(0)}
UrReset == UrSetCount(0, "Reset")

\* The interval's callback: setCount(c => c + 1). The update is queued; the
\* render that applies it comes later (at once under a legacy root, in a
\* later task under createRoot), and a click may come in between.
AutoTick ==
    /\ urIntervals # EmptyObject
    /\ urQueued < MaxQueuedTicks
    /\ ur.count + urQueued < MaxRefCount
    /\ urQueued' = urQueued + 1
    /\ urLast' = "tick"
    /\ UNCHANGED <<ur, refs, shownRef, urIntervals, renders, countBefore>>

\* The render React scheduled for the queued c => c + 1 updates
TickRender ==
    /\ ur.mounted
    /\ urQueued > 0
    /\ RenderRef([ur EXCEPT !.count = @ + urQueued], FALSE, "tickRender")
    /\ urQueued' = 0
    /\ UNCHANGED urIntervals

\* onChange={(e) => setName(e.target.value)}
SetName(value) ==
    /\ ur.mounted
    /\ value # ur.name
    /\ RenderRef([ur EXCEPT !.name = value], FALSE, "name")
    /\ UNCHANGED <<urIntervals, urQueued>>

\* Force Re-render: setRenderCount(renderCount + 1)
ForceRerender ==
    /\ ur.mounted
    /\ RenderRef([ur EXCEPT !.renderCount = @ + 1], FALSE, "force")
    /\ UNCHANGED <<urIntervals, urQueued>>

\* Play / Pause: the <video> element is in every render, so videoRef.current is
\* set while the component is mounted; after play() or pause(),
\* setVideoPlaying(!videoPlaying) renders the component again.
toggleVideo ==
    /\ ur.mounted
    /\ RenderRef([ur EXCEPT !.videoPlaying = ~@], FALSE, "video")
    /\ UNCHANGED <<urIntervals, urQueued>>

\* A start that leaves the interval it finds running.
LeaveExisting(timers, id) == timers

\* if (timerRef.current) clearInterval(timerRef.current)
ClearExisting(timers, id) == IF id # null THEN Clear(timers, id) ELSE timers

\* timerRef.current = setInterval(...), after the existing interval is cleared
startAutoIncrement ==
    LET cleared == ClearExisting(urIntervals, refs.timer)
        id == NextTimerId(EmptyObject, cleared, {})
    IN  /\ ur.mounted
        /\ urIntervals' = cleared @@ (id :> [remaining |-> TimerPeriod])
        /\ refs' = [refs EXCEPT !.timer = id]
        /\ urLast' = (IF refs.timer # null THEN "restart" ELSE "start")
        /\ UNCHANGED <<ur, shownRef, renders, countBefore, urQueued>>

\* if (timerRef.current) { clearInterval(timerRef.current); timerRef.current = null; }
stopAutoIncrement ==
    /\ ur.mounted
    /\ urIntervals' = (IF refs.timer # null THEN Clear(urIntervals, refs.timer)
                       ELSE urIntervals)
    /\ refs' = [refs EXCEPT !.timer = null]
    /\ urLast' = "stop"
    /\ UNCHANGED <<ur, shownRef, renders, countBefore, urQueued>>

-----------------------------------------------------------------------------
(* UseMemoDemo *)

\* const fibonacci = (n) => { if (n <= 1) return n; return fibonacci(n - 1) + fibonacci(n - 2); }
RECURSIVE fibonacci(_)
fibonacci(n) == IF n <= 1 THEN n ELSE fibonacci(n - 1) + fibonacci(n - 2)

\* Values typed into the Fibonacci Number input
FibNumbers == {1, 5, 10}

InitialFibNumber == 10

\* useState's initial products
InitialProducts ==
    << [id |-> 1, name |-> "Laptop", price |-> 1200],
       [id |-> 2, name |-> "Mouse", price |-> 25],
       [id |-> 3, name |-> "Keyboard", price |-> 75],
       [id |-> 4, name |-> "Monitor", price |-> 300],
       [id |-> 5, name |-> "Headphones", price |-> 150],
       [id |-> 6, name |-> "Webcam", price |-> 80],
       [id |-> 7, name |-> "Microphone", price |-> 120],
       [id |-> 8, name |-> "Desk Lamp", price |-> 45] >>

\* Values Date.now() takes at a click on Add Random Product: two
\* milliseconds (scaled into the integers TLC can hold).
Timestamps == {2000000001, 2000000002}

\* Values of Math.floor(Math.random() * 500) + 50: the least and the greatest
RandomPrices == {50, 549}

\* `Product ${n}`
ProductName(n) ==
    CASE n = 9 -> "Product 9"
      [] n = 10 -> "Product 10"
      [] n = 11 -> "Product 11"
      [] n = 12 -> "Product 12"

\* Texts typed into the product search input
ProductSearches == {"", "mo"}

SortOrders == {"asc", "desc"}

\* What a render of UseMemoDemo with fibNumber n computes, given what useMemo
\* has kept: fibResultWithoutMemo = fibonacci(fibNumber) is evaluated in the
\* body of the component; fibResultWithMemo's function runs if fibNumber is
\* not the one useMemo has kept; the Result shown is the one useMemoEnabled
\* selects.
Rendered(state, memo, first) ==
    LET fibResultWithoutMemo == fibonacci(state.fibNumber)
        recalculated == first \/ state.fibNumber # memo.dep
        kept == IF recalculated
                THEN [dep |-> state.fibNumber, value |-> fibonacci(state.fibNumber)]
                ELSE memo
    IN  [memo |-> kept,
         calls |-> [body |-> TRUE, memo |-> recalculated],
         shown |-> IF state.useMemoEnabled THEN kept.value ELSE fibResultWithoutMemo]

\* A render of UseMemoDemo with the hook values `state`
RenderMemo(state, first, event) ==
    LET r == Rendered(state, fibMemo, first)
    IN  /\ um' = state
        /\ fibMemo' = r.memo
        /\ fibCalls' = r.calls
        /\ shownFib' = r.shown
        /\ umLast' = event

\* ExpensiveChild's effect, after the first render and after every render
\* that gave it a new data array: onRender(), which is handleChildRender,
\* setChildRenderCount(prev => prev + 1). Called from an effect, the update is
\* queued: React renders it in a later task (ChildCountRender), and an event
\* handled before that task is rendered first, with childRenderCount as it
\* was. childQueued counts the updates queued and not yet rendered.
handleChildRender(state) == [state EXCEPT !.childQueued = @ + 1]

\* The render React schedules for the updates ExpensiveChild's effect has
\* queued: every queued prev => prev + 1 is applied in it. products is the
\* same array, so the effect does not run again.
ChildCountRender ==
    /\ um.childQueued > 0
    /\ RenderMemo([um EXCEPT !.childRenderCount = @ + um.childQueued, !.childQueued = 0],
                  FALSE, "ChildCountRender")

\* A setter called with the value the state already has: React bails out,
\* either before rendering or, when the fiber still carries work from the
\* update before or from ExpensiveChild's effect, after invoking the body of
\* the component once more (nothing is committed and no effect runs).
SameValue(event) ==
    /\ \/ fibCalls' = fibCalls
       \/ fibCalls' = Rendered(um, fibMemo, FALSE).calls
    /\ umLast' = event
    /\ UNCHANGED <<um, fibMemo, shownFib>>

\* onChange={(e) => setFibNumber(Number(e.target.value))}
SetFibNumber(n) ==
    /\ IF n # um.fibNumber
       THEN RenderMemo([um EXCEPT !.fibNumber = n], FALSE, "FibNumber")
       ELSE SameValue("FibNumber")

\* Increment Count and Force Parent Re-render: setCount(count + 1)
MemoIncrementCount ==
    /\ um.count < MaxMemoCount
    /\ RenderMemo([um EXCEPT !.count = @ + 1], FALSE, "IncrementCount")

\* setTheme(theme === 'light' ? 'dark' : 'light')
ChangeTheme ==
    /\ RenderMemo([um EXCEPT !.theme = IF @ = "light" THEN "dark" ELSE "light"],
                  FALSE, "Theme")

\* setUseMemoEnabled(!useMemoEnabled)
toggleMemo ==
    /\ RenderMemo([um EXCEPT !.useMemoEnabled = ~@], FALSE, "toggleMemo")

\* onChange={(e) => setSearchTerm(e.target.value)}: a render in which only
\* filteredProducts is computed again.
SetSearchTerm(value) ==
    /\ IF value # um.searchTerm
       THEN RenderMemo([um EXCEPT !.searchTerm = value], FALSE, "Search")
       ELSE SameValue("Search")

\* Sort Ascending / Sort Descending: setSortOrder('asc') / setSortOrder('desc')
SetSortOrder(order) ==
    /\ IF order # um.sortOrder
       THEN RenderMemo([um EXCEPT !.sortOrder = order], FALSE, "Sort")
       ELSE SameValue("Sort")

\* Add Random Product: setProducts([...products, newProduct]). The render
\* makes memoizedProductList a new array, so ExpensiveChild's effect runs
\* again when the render is committed and queues one more update.
AddRandomProduct(now, price) ==
    LET newProduct == [id |-> now, name |-> ProductName(Len(um.products) + 1),
                       price |-> price]
    IN  /\ Len(um.products) < MaxProducts
        /\ RenderMemo(handleChildRender([um EXCEPT !.products = Append(@, newProduct)]),
                      FALSE, "AddProduct")

-----------------------------------------------------------------------------
(* UseContextDemo *)

\* The components that read ThemeContext, and the container, which reads the state
ThemeConsumers == {"ThemedButton", "DeepNestedComponent", "UserProfile", "SettingsPanel"}
Container == "UseContextDemo"

InitialUser == [name |-> "Avinash", email |-> "avinash@example.com",
                role |-> "Frontend Developer"]
InitialSettings == [notifications |-> TRUE, language |-> "en", autoSave |-> TRUE]
InitialContextState == [theme |-> "light", user |-> InitialUser, settings |-> InitialSettings]

Languages == {"en", "es", "fr"}

\* A toggle that always ends in dark mode.
AlwaysDark(prev) == "dark"

\* prev => prev === 'light' ? 'dark' : 'light'
OtherTheme(prev) == IF prev = "light" THEN "dark" ELSE "light"

\* <ThemeContext.Provider value={{theme, toggleTheme}}>
Provided(state) == [theme |-> state.theme]

\* const {theme} = useContext(ThemeContext) in a consumer; the container's
\* className reads the state itself
ThemeRead(c, state) == IF c = Container THEN state.theme ELSE Provided(state).theme

\* A render of UseContextDemo with the hook values `state`: the provider
\* value is a new object, no component is memoized, every consumer renders.
RenderContext(state, event) ==
    /\ uc' = state
    /\ seen' = [c \in ThemeConsumers \cup {Container} |-> ThemeRead(c, state)]
    /\ ucLast' = [event |-> event, before |-> uc,
                  event2 |-> ucLast.event, before2 |-> ucLast.before.theme]

\* toggleTheme: setTheme(prev => prev === 'light' ? 'dark' : 'light')
toggleTheme == RenderContext([uc EXCEPT !.theme = OtherTheme(@)], "toggleTheme")

\* updateSettings({...settings, ...}): a new settings object, always a render
UpdateSettings(settings, event) == RenderContext([uc EXCEPT !.settings = settings], event)

\* UserProfile: Toggle Notifications; SettingsPanel: the notifications checkbox
ToggleNotifications ==
    UpdateSettings([uc.settings EXCEPT !.notifications = ~@], "notifications")

\* UserProfile: Change Language (en <-> es, anything else to en)
ChangeLanguage ==
    UpdateSettings([uc.settings EXCEPT !.language = IF @ = "en" THEN "es" ELSE "en"],
                   "ChangeLanguage")

\* SettingsPanel: toggleAutoSave
toggleAutoSave == UpdateSettings([uc.settings EXCEPT !.autoSave = ~@], "autoSave")

\* SettingsPanel: the language select
SelectLanguage(value) ==
    /\ value # uc.settings.language
    /\ UpdateSettings([uc.settings EXCEPT !.language = value], "SelectLanguage")

-----------------------------------------------------------------------------
(* Specifications *)

InitReducerDemo ==
    /\ heap = InitialHeap
    /\ counterState = counterInitialState
    /\ formState = formInitialState
    /\ todoState = todoInitialState
    /\ cartState = cartInitialState
    /\ demoError = "none"
    /\ lastCall = NoCall
    /\ submitTimers = 0

InitCounter ==
    /\ count = [v \in CounterVariants |-> 0]
    /\ shown = [v \in CounterVariants |-> 0]
    /\ lastClick = NoClick

\* Before the page is rendered: no component, an empty storage, no timer.
InitEffectDemo ==
    /\ ue = UnmountedState
    /\ localStorage = EmptyObject
    /\ title = "React App"
    /\ timeouts = EmptyObject
    /\ intervals = EmptyObject
    /\ timer = undefined
    /\ interval = undefined
    /\ sinceChange = 0
    /\ ueLast = NoEvent

\* UseCallbackDemo after its first render: every child has rendered once.
InitCallbackDemo ==
    LET state == [count |-> 0, otherState |-> 0, searchQuery |-> "", todos |-> InitialTodos]
        used == Held(<<>>)
        perRender == FreshId(used, 1)
        counters == NewCounters(<<>>, used)
        kids == Children(InitialTodos)
    IN  /\ cb = state
        /\ childProps = [c \in kids |-> PropsOf(c, state, counters, perRender)]
        /\ rendered = kids
        /\ displayed = [c \in ButtonChildren |-> counters[c].current]
        /\ renderCounters = [c \in ButtonChildren |-> [counters[c] EXCEPT !.current = @ + 1]]
        /\ cbLast = "mount"

\* Before UseRefDemo is rendered
InitRefDemo ==
    /\ ur = RefUnmountedState
    /\ refs = InitialRefs
    /\ shownRef = NothingShown
    /\ urIntervals = EmptyObject
    /\ renders = 0
    /\ countBefore = 0
    /\ urQueued = 0
    /\ urLast = "none"

\* UseMemoDemo after its first render: the update of ExpensiveChild's first
\* effect is still to be rendered.
InitMemoDemo ==
    /\ um = [fibNumber |-> InitialFibNumber, count |-> 0, theme |-> "light",
             products |-> InitialProducts, searchTerm |-> "", sortOrder |-> "asc",
             useMemoEnabled |-> TRUE, childRenderCount |-> 0,
             childQueued |-> 1]
    /\ fibMemo = [dep |-> InitialFibNumber, value |-> fibonacci(InitialFibNumber)]
    /\ fibCalls = [body |-> TRUE, memo |-> TRUE]
    /\ shownFib = fibonacci(InitialFibNumber)
    /\ umLast = "mount"

\* UseContextDemo after its first render
InitContextDemo ==
    /\ uc = InitialContextState
    /\ seen = [c \in ThemeConsumers \cup {Container} |-> ThemeRead(c, InitialContextState)]
    /\ ucLast = [event |-> "mount", before |-> InitialContextState,
                 event2 |-> "none", before2 |-> "light"]

Init ==
    /\ InitReducerDemo /\ InitCounter /\ InitEffectDemo /\ InitCallbackDemo
    /\ InitRefDemo /\ InitMemoDemo /\ InitContextDemo

vars == <<reducerVars, counterVars, effectVars, callbackVars, demoVars>>

\* The counter card: any action handed to counterDispatch.
CounterCard ==
    /\ \E a \in CounterActions : CounterDispatch(a)
    /\ UNCHANGED <<submitTimers, counterVars, effectVars, callbackVars, demoVars>>

\* The form card: typing and the other dispatches, the submit and its timeout.
FormCard ==
    /\ \E a \in FormActions : FormDispatch(a)
    /\ UNCHANGED <<submitTimers, counterVars, effectVars, callbackVars, demoVars>>

FormSubmit == handleFormSubmit /\ UNCHANGED <<counterVars, effectVars, callbackVars, demoVars>>

FormSubmitTimeout == SubmitTimeout /\ UNCHANGED <<counterVars, effectVars, callbackVars, demoVars>>

TodoCard ==
    /\ \E a \in TodoActions : TodoDispatch(a)
    /\ UNCHANGED <<submitTimers, counterVars, effectVars, callbackVars, demoVars>>

CartCard ==
    /\ \E a \in CartActions : CartDispatch(a)
    /\ UNCHANGED <<submitTimers, counterVars, effectVars, callbackVars, demoVars>>

\* The Counter components; one version is on the page. App renders Counter
\* and UseReducerDemo in one tree with no error boundary, so an error thrown
\* in a render takes the Counter off the page as well.
CounterClicks ==
    /\ demoError = "none"
    /\ \E v \in CounterVariants :
          /\ lastClick.variant \in {"none", v}
          /\ (increment(v) \/ decrement(v) \/ reset(v))
    /\ UNCHANGED <<reducerVars, effectVars, callbackVars, demoVars>>

\* The counter card and the Counter components, any click after any other.
NextCounter == CounterCard \/ CounterClicks

SpecCounter == Init /\ [][NextCounter]_vars

\* The form card on its own.
NextForm == FormCard \/ FormSubmit \/ FormSubmitTimeout

SpecForm == Init /\ [][NextForm]_vars

\* The todo card on its own.
NextTodo == TodoCard

SpecTodo == Init /\ [][NextTodo]_vars

\* The cart card on its own.
NextCart == CartCard

SpecCart == Init /\ [][NextCart]_vars

\* The four dispatch functions interleaved, each with a few of its actions.
PageCounterActions == {a \in CounterActions : a.type \in {"INCREMENT", "RESET", "UNKNOWN"}}
PageFormActions == {a \in FormActions : a.type \in {"SUBMIT_START", "SUBMIT_SUCCESS", "RESET_FORM",
                                     "UNKNOWN"}}
PageTodoActions ==
    {a \in TodoActions : \/ a.type = "ADD_TODO" /\ a.text = "a"
                         \/ a.type = "TOGGLE_TODO" /\ a.id = 1
                         \/ a.type \in {"CLEAR_COMPLETED", "UNKNOWN"}}
PageCartActions ==
    {a \in CartActions : \/ a.type = "ADD_ITEM" /\ a.item.id = 2
                         \/ a.type = "REMOVE_ITEM" /\ a.id = 2
                         \/ a.type \in {"CLEAR_CART", "UNKNOWN"}}

PageCounter == (\E a \in PageCounterActions : CounterDispatch(a)) /\ UNCHANGED <<submitTimers, counterVars, effectVars, callbackVars, demoVars>>
PageForm == (\E a \in PageFormActions : FormDispatch(a)) /\ UNCHANGED <<submitTimers, counterVars, effectVars, callbackVars, demoVars>>
PageTodo == (\E a \in PageTodoActions : TodoDispatch(a)) /\ UNCHANGED <<submitTimers, counterVars, effectVars, callbackVars, demoVars>>
PageCart == (\E a \in PageCartActions : CartDispatch(a)) /\ UNCHANGED <<submitTimers, counterVars, effectVars, callbackVars, demoVars>>

NextPage == PageCounter \/ PageForm \/ PageTodo \/ PageCart

SpecPage == Init /\ [][NextPage]_vars

\* UseEffectDemo on its own: its events, its timers and the passing of time.
NextEffect ==
    \/ Mount /\ UNCHANGED <<reducerVars, counterVars, callbackVars, demoVars>>
    \/ Unmount /\ UNCHANGED <<reducerVars, counterVars, callbackVars, demoVars>>
    \/ UeIncrement /\ UNCHANGED <<reducerVars, counterVars, callbackVars, demoVars>>
    \/ UeDecrement /\ UNCHANGED <<reducerVars, counterVars, callbackVars, demoVars>>
    \/ UeReset /\ UNCHANGED <<reducerVars, counterVars, callbackVars, demoVars>>
    \/ toggleTimer /\ UNCHANGED <<reducerVars, counterVars, callbackVars, demoVars>>
    \/ resetTimer /\ UNCHANGED <<reducerVars, counterVars, callbackVars, demoVars>>
    \/ IntervalTick /\ UNCHANGED <<reducerVars, counterVars, callbackVars, demoVars>>
    \/ (\E value \in SearchTerms : Type(value)) /\ UNCHANGED <<reducerVars, counterVars, callbackVars, demoVars>>
    \/ DebounceFire /\ UNCHANGED <<reducerVars, counterVars, callbackVars, demoVars>>
    \/ Advance /\ UNCHANGED <<reducerVars, counterVars, callbackVars, demoVars>>

SpecEffect == Init /\ [][NextEffect]_vars

\* The browser's clock runs and a timer whose delay has passed is called back.
EffectFairness ==
    /\ WF_vars(Advance /\ UNCHANGED <<reducerVars, counterVars, callbackVars, demoVars>>)
    /\ WF_vars(DebounceFire /\ UNCHANGED <<reducerVars, counterVars, callbackVars, demoVars>>)

SpecEffectFair == SpecEffect /\ EffectFairness

\* UseCallbackDemo on its own: every event of the page that sets its state.
NextCallback ==
    \/ IncrementCount /\ UNCHANGED <<reducerVars, counterVars, effectVars, demoVars>>
    \/ UpdateOtherState /\ UNCHANGED <<reducerVars, counterVars, effectVars, demoVars>>
    \/ (\E q \in SearchQueries : Search(q)) /\ UNCHANGED <<reducerVars, counterVars, effectVars, demoVars>>
    \/ (\E id \in 1..Len(InitialTodos) : handleToggleTodoClick(id))
          /\ UNCHANGED <<reducerVars, counterVars, effectVars, demoVars>>
    \/ (\E id \in 1..Len(InitialTodos) : handleDeleteTodoClick(id))
          /\ UNCHANGED <<reducerVars, counterVars, effectVars, demoVars>>
    \/ (\E amount \in {1, 2, 5} : handleIncrementBy(amount))
          /\ UNCHANGED <<reducerVars, counterVars, effectVars, demoVars>>

SpecCallback == Init /\ [][NextCallback]_vars

\* UseRefDemo on its own: its buttons, its input and its interval.
NextRef ==
    \/ UrMount /\ UNCHANGED <<reducerVars, counterVars, effectVars, callbackVars, memoVars, contextVars>>
    \/ UrUnmount /\ UNCHANGED <<reducerVars, counterVars, effectVars, callbackVars, memoVars, contextVars>>
    \/ UrIncrement /\ UNCHANGED <<reducerVars, counterVars, effectVars, callbackVars, memoVars, contextVars>>
    \/ UrDecrement /\ UNCHANGED <<reducerVars, counterVars, effectVars, callbackVars, memoVars, contextVars>>
    \/ UrReset /\ UNCHANGED <<reducerVars, counterVars, effectVars, callbackVars, memoVars, contextVars>>
    \/ AutoTick /\ UNCHANGED <<reducerVars, counterVars, effectVars, callbackVars, memoVars, contextVars>>
    \/ TickRender /\ UNCHANGED <<reducerVars, counterVars, effectVars, callbackVars, memoVars, contextVars>>
    \/ (\E value \in Names : SetName(value))
          /\ UNCHANGED <<reducerVars, counterVars, effectVars, callbackVars, memoVars, contextVars>>
    \/ ForceRerender /\ UNCHANGED <<reducerVars, counterVars, effectVars, callbackVars, memoVars, contextVars>>
    \/ toggleVideo /\ UNCHANGED <<reducerVars, counterVars, effectVars, callbackVars, memoVars, contextVars>>
    \/ startAutoIncrement /\ UNCHANGED <<reducerVars, counterVars, effectVars, callbackVars, memoVars, contextVars>>
    \/ stopAutoIncrement /\ UNCHANGED <<reducerVars, counterVars, effectVars, callbackVars, memoVars, contextVars>>

SpecRef == Init /\ [][NextRef]_vars

\* UseMemoDemo on its own: the events that set its state.
NextMemo ==
    \/ ChildCountRender /\ UNCHANGED <<reducerVars, counterVars, effectVars, callbackVars, refVars, contextVars>>
    \/ (\E n \in FibNumbers : SetFibNumber(n))
          /\ UNCHANGED <<reducerVars, counterVars, effectVars, callbackVars, refVars, contextVars>>
    \/ MemoIncrementCount /\ UNCHANGED <<reducerVars, counterVars, effectVars, callbackVars, refVars, contextVars>>
    \/ ChangeTheme /\ UNCHANGED <<reducerVars, counterVars, effectVars, callbackVars, refVars, contextVars>>
    \/ toggleMemo /\ UNCHANGED <<reducerVars, counterVars, effectVars, callbackVars, refVars, contextVars>>
    \/ (\E value \in ProductSearches : SetSearchTerm(value))
          /\ UNCHANGED <<reducerVars, counterVars, effectVars, callbackVars, refVars, contextVars>>
    \/ (\E order \in SortOrders : SetSortOrder(order))
          /\ UNCHANGED <<reducerVars, counterVars, effectVars, callbackVars, refVars, contextVars>>
    \/ (\E now \in Timestamps, price \in RandomPrices : AddRandomProduct(now, price))
          /\ UNCHANGED <<reducerVars, counterVars, effectVars, callbackVars, refVars, contextVars>>

SpecMemo == Init /\ [][NextMemo]_vars

\* UseContextDemo on its own: the theme button and the settings controls.
NextContext ==
    \/ toggleTheme /\ UNCHANGED <<reducerVars, counterVars, effectVars, callbackVars, refVars, memoVars>>
    \/ ToggleNotifications
          /\ UNCHANGED <<reducerVars, counterVars, effectVars, callbackVars, refVars, memoVars>>
    \/ ChangeLanguage /\ UNCHANGED <<reducerVars, counterVars, effectVars, callbackVars, refVars, memoVars>>
    \/ toggleAutoSave /\ UNCHANGED <<reducerVars, counterVars, effectVars, callbackVars, refVars, memoVars>>
    \/ (\E value \in Languages : SelectLanguage(value))
          /\ UNCHANGED <<reducerVars, counterVars, effectVars, callbackVars, refVars, memoVars>>

SpecContext == Init /\ [][NextContext]_vars

\* The page: App mounts every component, and any event of any of them may
\* follow any event of any other. An error thrown by a reducer during a
\* render, with no error boundary in the tree, unmounts the whole tree: no
\* component handles an event after it, the cleanups of the effects run, and
\* of the timers only the submit timeout, which nothing clears, still fires.
Next ==
    \/ NextCounter \/ NextForm \/ NextTodo \/ NextCart
    \/ demoError = "none"
          /\ (NextEffect \/ NextCallback \/ NextRef \/ NextMemo \/ NextContext)
    \/ demoError # "none" /\ Unmount
          /\ UNCHANGED <<reducerVars, counterVars, callbackVars, demoVars>>
    \/ demoError # "none" /\ UrUnmount
          /\ UNCHANGED <<reducerVars, counterVars, effectVars, callbackVars, memoVars, contextVars>>

Spec == Init /\ [][Next]_vars

-----------------------------------------------------------------------------
(* Properties of the reducers and the counters *)

Count(r) == heap[r].count
Todos == heap[heap[todoState].todos].elems
Items == heap[heap[cartState].items].elems

\* The objects a hook's state holds, by contents.
HookState(w) ==
    CASE w = "counter" -> <<counterState, heap[counterState]>>
      [] w = "form" -> <<formState, heap[formState], heap[heap[formState].errors]>>
      [] w = "todo" -> <<todoState, heap[todoState], [i \in DOMAIN Todos |-> heap[Todos[i]]]>>
      [] w = "cart" -> <<cartState, heap[cartState], [i \in DOMAIN Items |-> heap[Items[i]]]>>

Reducers == {"counter", "form", "todo", "cart"}

\* C1: an Increment makes the count exactly one more than it was: the state
\* counterReducer returns for INCREMENT, and the count of either Counter
\* component (as held and as rendered) after a click on Increment.
IncrementAddsOne ==
    /\ (lastCall.reducer = "counter" /\ lastCall.type = "INCREMENT") =>
          /\ lastCall.outcome = "state"
          /\ Count(counterState) = lastCall.pre + 1
    /\ lastClick.button = "Increment" =>
          /\ count[lastClick.variant] = lastClick.pre + 1
          /\ shown[lastClick.variant] = lastClick.pre + 1

\* An INCREMENT dispatched after +5, and a second click on the Increment of
\* the Counter whose handler closes over the rendered count.
IncrementWitness ==
    /\ lastCall.reducer = "counter" /\ lastCall.type = "INCREMENT" /\ lastCall.pre = 5
    /\ lastClick = [variant |-> "closure", button |-> "Increment", pre |-> 1]

\* C2: a dispatch to one reducer leaves what the other three hooks hold as it was.
ReducersIsolated ==
    [][\A w \in Reducers : lastCall'.reducer # w => HookState(w)' = HookState(w)]_vars

\* All four hooks away from their initial state, the latest dispatch to the cart.
IsolationWitness ==
    /\ lastCall.reducer = "cart" /\ lastCall.type = "CLEAR_CART"
    /\ Count(counterState) = 2
    /\ heap[formState].isSubmitting
    /\ Len(Todos) = 2

\* C3: every reducer call returns an object other than the state it was
\* given, and changes no object that existed before the call.
ReducersAlwaysReturnNewObject ==
    lastCall.outcome = "state" => ~lastCall.mutated /\ ~lastCall.same

\* C4: every reducer returns the state it was given for an action type it
\* does not know.
UnknownActionReturnsState ==
    lastCall.type = "UNKNOWN" => lastCall.outcome = "state" /\ lastCall.same

\* C5: no action dispatched to cartReducer raises an exception.
CartNeverThrows ==
    lastCall.reducer = "cart" => lastCall.outcome = "state"

-----------------------------------------------------------------------------
(* Properties of UseEffectDemo *)

CountButtons == {"Increment", "Decrement", "Reset"}

\* C6 (as claimed): a click on Increment, Decrement or Reset of UseEffectDemo
\* leaves the browser's storage as it was.
CountChangeLeavesStorageUnchanged ==
    [][ueLast'.event \in CountButtons => localStorage' = localStorage]_vars

\* C6 (amended): the storage holds one entry at most, 'savedCount'; while
\* UseEffectDemo is mounted the entry is its count as a decimal string,
\* written by the mount and by every change of count, and the entry stays
\* once the component is gone.
SavedCountTracksCount ==
    /\ DOMAIN localStorage \subseteq {"savedCount"}
    /\ ue.mounted => localStorage = ("savedCount" :> toString(ue.count))
    /\ ueLast.event = "unmount" => "savedCount" \in DOMAIN localStorage

\* Two clicks on Decrement, the second one just saved.
SavedCountWitness ==
    /\ ue.mounted
    /\ ueLast.event = "Decrement"
    /\ ue.count = -2
    /\ localStorage = ("savedCount" :> "-2")

\* C7: at most one debounce timer is pending, the one of the latest render's
\* effect and for the current searchTerm; a timer that runs assigns
\* debouncedTerm the searchTerm that has stood for the whole delay.
SearchIsDebounced ==
    /\ Cardinality(DOMAIN timeouts) <= 1
    /\ \A id \in DOMAIN timeouts : id = timer /\ timeouts[id].term = ue.searchTerm
    /\ ueLast.event = "debounce" =>
          /\ ueLast.stableFor >= DebounceDelay
          /\ ueLast.term = ue.searchTerm
          /\ ue.debouncedTerm = ueLast.term
    /\ ue.debouncedTerm # ue.searchTerm =>
          \/ sinceChange < DebounceDelay
          \/ \E id \in DOMAIN timeouts : timeouts[id].remaining = 0

\* The timer of the last keystroke has run and assigned "react".
DebounceWitness ==
    /\ ueLast.event = "debounce"
    /\ ueLast.term = "react"
    /\ ue.debouncedTerm = "react"
    /\ timeouts = EmptyObject

-----------------------------------------------------------------------------
(* Properties of UseCallbackDemo *)

\* C8: the MemoizedButton given handleClickStable is not rendered again by a
\* render of the parent that a change of count or of otherState caused.
StableMemoButtonNotRerendered ==
    cbLast \in {"IncrementCount", "IncrementBy", "UpdateOtherState"} =>
        MemoWithCallback \notin rendered

\* C9: each render of the parent makes the 'Renders' number that RegularButton
\* shows one more than it was.
RegularButtonRendersGrowByOne ==
    [][cbLast' \in {"IncrementCount", "IncrementBy", "UpdateOtherState", "Search",
                    "ToggleTodo", "DeleteTodo"}
          => displayed'[RegularButton] = displayed[RegularButton] + 1]_vars

\* C10: SearchResults is rendered again by a change of searchQuery, and by no
\* render of the parent that a change of count, otherState or todos caused.
SearchResultsRendersOnlyOnQueryChange ==
    /\ cbLast \in {"IncrementCount", "IncrementBy", "UpdateOtherState",
                   "ToggleTodo", "DeleteTodo"} => SearchResults \notin rendered
    /\ cbLast = "Search" => SearchResults \in rendered

\* A toggle of a todo while a query is typed in: the parent and the toggled
\* TodoItem render, SearchResults does not.
SearchResultsWitness ==
    /\ cbLast = "ToggleTodo"
    /\ cb.searchQuery = "item"
    /\ TodoItem(2) \in rendered
    /\ SearchResults \notin rendered

TodoItemsRendered == {c \in rendered : c[1] = "TodoItem"}

\* C11: a toggle renders the TodoItem of the toggled todo and no other one; a
\* delete, and a render of the parent for count, otherState or searchQuery,
\* render no TodoItem; every TodoItem is given the same onToggle and onDelete
\* in every render.
TodoItemRendersOnlyOnOwnChange ==
    /\ cbLast = "ToggleTodo" => Cardinality(TodoItemsRendered) = 1
    /\ cbLast \in {"DeleteTodo", "IncrementCount", "IncrementBy", "UpdateOtherState",
                   "Search"} => TodoItemsRendered = {}
    /\ \A t \in Range(cb.todos) :
          /\ childProps[TodoItem(t.id)][1] = t.ref
          /\ childProps[TodoItem(t.id)][2] = handleDeleteTodo
          /\ childProps[TodoItem(t.id)][3] = handleToggleTodo

\* The second todo toggled after the first was deleted: its TodoItem alone
\* renders again.
TodoItemWitness ==
    /\ cbLast = "ToggleTodo"
    /\ Len(cb.todos) = 2
    /\ cb.todos[1].id = 2 /\ cb.todos[1].completed
    /\ TodoItemsRendered = {TodoItem(2)}

-----------------------------------------------------------------------------
(* Properties of the timers of UseEffectDemo *)

\* C12: one seconds-interval at most is live; after the effects of a render
\* an interval is live exactly while the component is mounted with
\* isTimerRunning true, and it is the one the latest effect started; none is
\* live once the component is unmounted.
OneIntervalWhileRunning ==
    /\ Cardinality(DOMAIN intervals) <= 1
    /\ DOMAIN intervals # {} => ue.mounted /\ ue.isTimerRunning
    /\ (ue.mounted /\ ue.isTimerRunning) => DOMAIN intervals = {interval}
    /\ ~ue.mounted => intervals = EmptyObject /\ interval = undefined

\* Start again after a pause at two seconds: one interval, newly started.
IntervalWitness ==
    /\ ueLast.event = "toggleTimer"
    /\ ue.isTimerRunning
    /\ ue.seconds = 2
    /\ Cardinality(DOMAIN intervals) = 1
    /\ \A id \in DOMAIN intervals : intervals[id].remaining = TimerPeriod

\* C13: while the component stays mounted and searchTerm stays what it is,
\* debouncedTerm comes to equal it; and once equal it stays equal for as long
\* as searchTerm does not change.
DebouncedTermCatchesUp ==
    /\ \A t \in SearchTerms :
          (ue.mounted /\ ue.searchTerm = t)
              ~> (ue.debouncedTerm = t \/ ~ue.mounted \/ ue.searchTerm # t)
    /\ [][(ue.mounted /\ ue.debouncedTerm = ue.searchTerm
              /\ ue'.mounted /\ ue'.searchTerm = ue.searchTerm)
            => ue'.debouncedTerm = ue'.searchTerm]_vars

\* "re" was typed, stood for the delay and has just been assigned.
CatchUpWitness ==
    /\ ueLast.event = "debounce"
    /\ ueLast.term = "re"
    /\ ue.mounted /\ ue.searchTerm = "re" /\ ue.debouncedTerm = "re"

-----------------------------------------------------------------------------
(* Properties of UseRefDemo *)

\* C14: the 'Previous' value a render displays is the value count had before
\* its most recent change, whatever caused the render.
PreviousIsCountBeforeChange ==
    ur.mounted => shownRef.previous = countBefore

\* C15: the number a render displays as 'This component has rendered: N
\* times' is the number of renders so far, the displaying one included.
RenderCountShownIsRenders ==
    ur.mounted => shownRef.renders = renders

\* A click on Stop while no interval is live changes nothing of the component.
StopWithoutIntervalIsNoOp ==
    (urLast' = "stop" /\ urIntervals = EmptyObject)
        => UNCHANGED <<ur, refs, shownRef, urIntervals, renders, countBefore, urQueued>>

\* C16: one auto-increment interval at most is live, the one timerRef holds;
\* after Stop none is live and timerRef.current is null; Stop without a live
\* interval changes nothing; none is live once the component is unmounted.
OneAutoIncrementInterval ==
    /\ [](/\ Cardinality(DOMAIN urIntervals) <= 1
          /\ DOMAIN urIntervals # {} => ur.mounted /\ DOMAIN urIntervals = {refs.timer}
          /\ urLast = "stop" => urIntervals = EmptyObject /\ refs.timer = null
          /\ ~ur.mounted => urIntervals = EmptyObject)
    /\ [][StopWithoutIntervalIsNoOp]_vars

\* Start clicked again while the interval is live and the update of one of
\* its ticks is still queued: the interval that ticked is cleared and the
\* new one is the only one live.
AutoIncrementWitness ==
    /\ urLast = "restart"
    /\ urQueued = 1
    /\ Cardinality(DOMAIN urIntervals) = 1
    /\ refs.timer \in DOMAIN urIntervals

-----------------------------------------------------------------------------
(* Properties of UseMemoDemo *)

\* C17: while 'Use useMemo' is checked, a render caused by Increment Count or
\* by a change of theme makes no call of fibonacci.
UnrelatedRenderDoesNotRecalculate ==
    (um.useMemoEnabled /\ umLast \in {"IncrementCount", "Theme"}) =>
        ~fibCalls.body /\ ~fibCalls.memo

-----------------------------------------------------------------------------
(* Properties of UseContextDemo *)

\* C18: theme is 'light' or 'dark'; the four consumers and the container all
\* read the current theme in every render; toggleTheme ends in the other
\* theme with user and settings as they were, and a second toggle right
\* after a first ends in the theme the first one started from.
ThemeIsSharedAndToggles ==
    /\ uc.theme \in {"light", "dark"}
    /\ \A c \in ThemeConsumers \cup {Container} : seen[c] = uc.theme
    /\ ucLast.event = "toggleTheme" =>
          /\ uc.theme # ucLast.before.theme
          /\ uc.user = ucLast.before.user
          /\ uc.settings = ucLast.before.settings
    /\ (ucLast.event = "toggleTheme" /\ ucLast.event2 = "toggleTheme") =>
          uc.theme = ucLast.before2

\* Two toggles in a row after the settings were changed: light again, the
\* settings kept.
ThemeWitness ==
    /\ ucLast.event = "toggleTheme" /\ ucLast.event2 = "toggleTheme"
    /\ uc.theme = "light"
    /\ uc.settings = [notifications |-> FALSE, language |-> "fr", autoSave |-> TRUE]
    /\ seen["DeepNestedComponent"] = "light"

-----------------------------------------------------------------------------
(* Properties of the todo ids *)

TodoIds == [i \in DOMAIN Todos |-> heap[Todos[i]].id]
NextId == heap[todoState].nextId

\* C19: the ids of the todos are distinct and each is less than nextId; a
\* todoReducer call never lowers nextId, and changes it only for ADD_TODO,
\* which makes it exactly one more.
TodoIdsAreUniqueKeys ==
    /\ \A i, j \in DOMAIN TodoIds : i # j => TodoIds[i] # TodoIds[j]
    /\ \A i \in DOMAIN TodoIds : TodoIds[i] < NextId
    /\ (lastCall.reducer = "todo" /\ lastCall.outcome = "state") =>
          /\ NextId >= lastCall.pre
          /\ NextId # lastCall.pre => lastCall.type = "ADD_TODO"
          /\ lastCall.type = "ADD_TODO" => NextId = lastCall.pre + 1

\* A todo added after the first one was deleted: it gets id 2, not id 1 again.
TodoIdsWitness ==
    /\ lastCall.reducer = "todo" /\ lastCall.type = "ADD_TODO" /\ lastCall.pre = 2
    /\ Len(Todos) = 1
    /\ TodoIds[1] = 2
    /\ NextId = 3

====
